---- MODULE Spec2Model ----
(***************************************************************************)
(* Timely-Hub-Backend: the reminder scheduler                              *)
(* (src/src/services/schedulerService.ts), the account handlers signUp,    *)
(* loginUser and verifyEmail, and the activity notifications of getQuiz    *)
(* and sendMessage.                                                        *)
(*                                                                         *)
(* Time is counted in minutes: the cron expression fires once per minute   *)
(* and the lookahead is 5 minutes.  A notification cycle is one call of    *)
(* checkAndSendReminders; it is suspended at each await (the find query,   *)
(* the send, the save), and every step between two awaits is one action.   *)
(* A request handler is modelled the same way: one action per await that   *)
(* reads or writes the store, taken when the await settles.                *)
(***************************************************************************)
EXTENDS Integers, Sequences, FiniteSets

\* ---------------------------------------------------------------- bounds
MaxReminders == 2
MaxCycles == 2
MaxTime == 2
MaxStarts == 2
FirstDue == 1
MaxDeleted == 1
MaxUsers == 2
MaxEmails == 2
MaxKeys == 1
MaxRequests == 3
MaxClock == 24
TickHours == 12
MaxDeletedUsers == 1
MaxChats == 2

\* ------------------------------------------------------ program constants
LookaheadMinutes == 5
MinPasswordLength == 6
MaxPasswordLength == 12
TokenLifetimeHours == 24

Reminders == 1..MaxReminders
Cycles == 1..MaxCycles
Times == 0..MaxTime
\* due times of the reminders in the store: one that is due early and one a
\* full lookahead window later, so that both edges of the window are met
DueTimes == {FirstDue, FirstDue + LookaheadMinutes}

VARIABLES
  now,            \* wall clock, in minutes
  isRunning,      \* SchedulerService.isRunning
  timers,         \* number of cron jobs registered by cron.schedule
  startCalls,     \* number of calls of startScheduler so far
  dueAt,          \* reminder -> due minute (Reminder.datetime)
  userOk,         \* reminder -> populate('userId') resolves the owner
  exists,         \* reminder -> the document is in the collection
  notified,       \* reminder -> Reminder.notified is true in the store
  nCycles,        \* number of cycles started so far
  pc,             \* cycle -> "idle" | "scan" | "send" | "save" | "done" | "aborted"
  cnow,           \* cycle -> the `now` taken at line 36
  result,         \* cycle -> upcomingReminders, in store order
  idx,            \* cycle -> position of the for loop in result
  log,            \* cycle -> reminder -> what the cycle did for it
  attempts,       \* reminder -> sends attempted while notified was unset
  cleared,        \* reminder -> resetAllNotifications has unset its flag
  clock,          \* wall clock of the account handlers, in hours
  user,           \* user id -> the document of the myUsers collection
  nUsers,         \* number of user documents created so far
  verifiedOk,     \* user ids for which verifyEmail has saved the flag
  nQuizzes,       \* number of quiz documents saved
  chatLen,        \* chat -> length of messages in the stored document
  nRequests,      \* number of requests received so far
  rpc,            \* request -> the await its handler is suspended at
  held,           \* request -> what its handler holds in local variables
  resp,           \* request -> the response sent
  mailed          \* request -> the handler's email was sent

vars == <<now, isRunning, timers, startCalls, dueAt, userOk, exists, notified,
          nCycles, pc, cnow, result, idx, log, attempts, cleared,
          clock, user, nUsers, verifiedOk, nQuizzes, chatLen,
          nRequests, rpc, held, resp, mailed>>

schedVars == <<isRunning, timers, startCalls>>
storeVars == <<dueAt, userOk, exists, notified>>
cycleVars == <<nCycles, pc, cnow, result, idx, log>>
histVars == <<attempts, cleared>>
reminderVars == <<now, schedVars, storeVars, cycleVars, histVars>>
authVars == <<clock, user, nUsers, verifiedOk>>
contentVars == <<nQuizzes, chatLen>>
reqVars == <<nRequests, rpc, held, resp, mailed>>
appVars == <<authVars, contentVars, reqVars>>

\* ------------------------------------------------------------- ISO strings
\* Date.toISOString() is a fixed-width string; two of them are compared by
\* the store as strings.  A minute count is written with two digits.
toISOString(t) == <<t \div 10, t % 10>>

\* string comparison a <= b of two strings of the same length
StrLeq(a, b) ==
  \/ a = b
  \/ \E i \in 1..Len(a) :
       /\ a[i] < b[i]
       /\ \A j \in 1..(i - 1) : a[j] = b[j]

\* Reminder.datetime as stored
datetime(r) == toISOString(dueAt[r])

\* string comparison a < b
StrLt(a, b) == StrLeq(a, b) /\ a # b

\* the filter without its condition on notified
MatchesFilter_anyNotified(r, t) ==
  /\ exists[r]
  /\ StrLeq(toISOString(t), datetime(r))
  /\ StrLeq(datetime(r), toISOString(t + LookaheadMinutes))

\* the filter with $lt in place of $lte
MatchesFilter_upperExclusive(r, t) ==
  /\ exists[r]
  /\ StrLeq(toISOString(t), datetime(r))
  /\ StrLt(datetime(r), toISOString(t + LookaheadMinutes))
  /\ notified[r] # TRUE

\* the filter with $gt in place of $gte
MatchesFilter_lowerExclusive(r, t) ==
  /\ exists[r]
  /\ StrLt(toISOString(t), datetime(r))
  /\ StrLeq(datetime(r), toISOString(t + LookaheadMinutes))
  /\ notified[r] # TRUE

\* the filter without its $gte condition: overdue reminders match too
MatchesFilter_noLowerBound(r, t) ==
  /\ exists[r]
  /\ StrLeq(datetime(r), toISOString(t + LookaheadMinutes))
  /\ notified[r] # TRUE

\* the filter of Reminder.find at lines 40-46, for a cycle whose now is t
MatchesFilter(r, t) ==
  /\ exists[r]
  /\ StrLeq(toISOString(t), datetime(r))
  /\ StrLeq(datetime(r), toISOString(t + LookaheadMinutes))
  /\ notified[r] # TRUE

RECURSIVE InOrder(_, _)
\* the members of S among the reminders k..MaxReminders, in store order
InOrder(S, k) ==
  IF k > MaxReminders THEN <<>>
  ELSE (IF k \in S THEN <<k>> ELSE <<>>) \o InOrder(S, k + 1)

\* a find without the two conditions on datetime
upcomingReminders_allPending(t) ==
  InOrder({r \in Reminders : exists[r] /\ notified[r] # TRUE}, 1)

upcomingReminders(t) == InOrder({r \in Reminders : MatchesFilter(r, t)}, 1)

Range(s) == {s[i] : i \in 1..Len(s)}

\* ------------------------------------------------- accounts and requests
UserIds == 1..MaxUsers
Emails == 1..MaxEmails
Keys == 1..MaxKeys
Chats == 1..MaxChats
Requests == 1..MaxRequests

\* a request field that is absent
Missing == 0
\* a password is a string: its length, and which string of that length it is
PasswordLengths == {MinPasswordLength - 1, MinPasswordLength, MaxPasswordLength + 1}
Passwords == [len : PasswordLengths, key : Keys]
NoPassword == [len |-> 0, key |-> 0]

\* argon2.hash(password) and argon2.verify(hash, password)
argon2Hash(p) == <<"argon2", p>>
argon2Verify(h, p) == h = argon2Hash(p)

\* the JWT of generateToken(id, role)
NoToken == <<>>
generateToken(id) == <<"jwt", id>>

\* crypto.randomBytes(32): a value no other user's token has
generateVerificationToken(u) == u

NoUser == [state |-> "none", email |-> Missing, password |-> <<>>,
           isEmailVerified |-> FALSE, emailVerificationToken |-> Missing,
           emailVerificationExpires |-> 0]
NoData == [op |-> "none", email |-> Missing, password |-> NoPassword,
           id |-> 0, hash |-> <<>>, isEmailVerified |-> FALSE, len |-> 0,
           token |-> Missing, method |-> "", path |-> <<>>]
NoResponse == [status |-> 0, token |-> NoToken, data |-> 0]

\* the routes of the activity router, in the order of their registration
ActivityRoutes ==
  << [method |-> "GET", pattern |-> <<>>, handler |-> "getActivities"],
     [method |-> "DELETE", pattern |-> <<":id">>, handler |-> "deleteActivity"],
     [method |-> "DELETE", pattern |-> <<"clear-all">>,
      handler |-> "clearAllActivities"] >>
\* the segments of a pattern that are parameters
Params == {":id"}
\* request paths, as their segments, relative to the mount point of the router
Paths == {<<>>, <<"clear-all">>, <<"a1">>, <<"a1", "b2">>}
Methods == {"GET", "DELETE", "POST"}

\* a pattern matches a path of as many segments, each equal to the pattern's
\* or taken by a parameter
MatchesPattern(pattern, path) ==
  /\ Len(pattern) = Len(path)
  /\ \A i \in 1..Len(pattern) : pattern[i] \in Params \/ pattern[i] = path[i]

RECURSIVE FirstMatch(_, _, _, _)
\* the first of the routes k.. whose method and pattern match, or 0
FirstMatch(routes, k, method, path) ==
  IF k > Len(routes) THEN 0
  ELSE IF routes[k].method = method /\ MatchesPattern(routes[k].pattern, path)
    THEN k
    ELSE FirstMatch(routes, k + 1, method, path)

Present(u) == user[u].state = "present"

InitApp ==
  /\ clock = 0
  /\ user = [u \in UserIds |-> NoUser]
  /\ nUsers = 0
  /\ verifiedOk = {}
  /\ nQuizzes = 0
  /\ chatLen = [ch \in Chats |-> 0]
  /\ nRequests = 0
  /\ rpc = [q \in Requests |-> "idle"]
  /\ held = [q \in Requests |-> NoData]
  /\ resp = [q \in Requests |-> NoResponse]
  /\ mailed = [q \in Requests |-> FALSE]

\* -------------------------------------------------------------------- Init
Init ==
  /\ now = 0
  /\ isRunning = FALSE
  /\ timers = 0
  /\ startCalls = 0
  /\ dueAt \in [Reminders -> DueTimes]
  /\ userOk \in [Reminders -> BOOLEAN]
  /\ exists = [r \in Reminders |-> TRUE]
  /\ notified = [r \in Reminders |-> FALSE]
  /\ nCycles = 0
  /\ pc = [c \in Cycles |-> "idle"]
  /\ cnow = [c \in Cycles |-> 0]
  /\ result = [c \in Cycles |-> <<>>]
  /\ idx = [c \in Cycles |-> 0]
  /\ log = [c \in Cycles |-> [r \in Reminders |-> "none"]]
  /\ attempts = [r \in Reminders |-> 0]
  /\ cleared = [r \in Reminders |-> FALSE]
  /\ InitApp

\* ----------------------------------------------------------- the scheduler
\* startScheduler without the isRunning guard of lines 9-12
startScheduler_noGuard ==
  /\ startCalls < MaxStarts
  /\ startCalls' = startCalls + 1
  /\ timers' = timers + 1
  /\ isRunning' = TRUE
  /\ UNCHANGED <<now, storeVars, cycleVars, histVars>>
  /\ UNCHANGED appVars

startScheduler ==
  /\ startCalls < MaxStarts
  /\ startCalls' = startCalls + 1
  /\ IF isRunning
       THEN UNCHANGED <<isRunning, timers>>
       ELSE /\ timers' = timers + 1
            /\ isRunning' = TRUE
  /\ UNCHANGED <<now, storeVars, cycleVars, histVars>>
  /\ UNCHANGED appVars

\* a stop that also ends the cycles that are in flight
stopScheduler_cancels ==
  /\ isRunning' = FALSE
  /\ pc' = [c \in Cycles |->
             IF pc[c] \in {"scan", "send", "save"} THEN "done" ELSE pc[c]]
  /\ UNCHANGED <<now, timers, startCalls, storeVars, nCycles, cnow, result, idx,
                 log, histVars>>
  /\ UNCHANGED appVars

stopScheduler ==
  /\ isRunning' = FALSE
  /\ UNCHANGED <<now, timers, startCalls, storeVars, cycleVars, histVars>>
  /\ UNCHANGED appVars

\* cycles first..last begin: checkAndSendReminders runs up to its first await
BeginCycles(first, last) ==
  /\ nCycles' = last
  /\ pc' = [c \in Cycles |-> IF c \in first..last THEN "scan" ELSE pc[c]]
  /\ cnow' = [c \in Cycles |-> IF c \in first..last THEN now' ELSE cnow[c]]
  /\ UNCHANGED <<result, idx, log>>

\* a minute passes and no callback is called
CronTick_noCycle ==
  /\ now < MaxTime
  /\ nCycles + timers <= MaxCycles
  /\ now' = now + 1
  /\ UNCHANGED <<schedVars, storeVars, cycleVars, histVars>>
  /\ UNCHANGED appVars

\* a minute passes; every registered cron job calls its callback
CronTick ==
  /\ now < MaxTime
  /\ nCycles + timers <= MaxCycles
  /\ now' = now + 1
  /\ BeginCycles(nCycles + 1, nCycles + timers)
  /\ UNCHANGED <<schedVars, storeVars, histVars>>
  /\ UNCHANGED appVars

triggerManualCheck ==
  /\ nCycles < MaxCycles
  /\ now' = now
  /\ BeginCycles(nCycles + 1, nCycles + 1)
  /\ UNCHANGED <<schedVars, storeVars, histVars>>
  /\ UNCHANGED appVars

\* ----------------------------------------------------------------- a cycle
\* a loop that does not advance: the same reminder is taken again
NextReminder_sameAgain(c) ==
  IF idx[c] < Len(result[c])
    THEN /\ idx' = idx
         /\ pc' = [pc EXCEPT ![c] = "send"]
    ELSE /\ idx' = idx
         /\ pc' = [pc EXCEPT ![c] = "done"]

\* the for loop moves to the next reminder, or the cycle ends
NextReminder(c) ==
  IF idx[c] < Len(result[c])
    THEN /\ idx' = [idx EXCEPT ![c] = idx[c] + 1]
         /\ pc' = [pc EXCEPT ![c] = "send"]
    ELSE /\ idx' = idx
         /\ pc' = [pc EXCEPT ![c] = "done"]

\* a catch around the loop instead of inside it: the cycle ends
DispatchFailed_endsCycle(c) ==
  /\ idx' = idx
  /\ pc' = [pc EXCEPT ![c] = "done"]

\* the catch at lines 67-69 is inside the loop: the loop goes on
DispatchFailed(c) == NextReminder(c)

\* the flag is set on the document in memory only, and never written
MarkNotified_notWritten(r) == notified

\* an updateMany in place of the save: every document is marked
MarkNotified_all(r) == [q \in Reminders |-> TRUE]

\* a write that flips the flag instead of setting it
MarkNotified_toggle(r) == [notified EXCEPT ![r] = ~@]

\* reminder.notified = true; reminder.save() writes the flag of document r
MarkNotified(r) == [notified EXCEPT ![r] = TRUE]

\* the store answers the find query of lines 40-46
Scan(c) ==
  /\ pc[c] = "scan"
  /\ result' = [result EXCEPT ![c] = upcomingReminders(cnow[c])]
  /\ IF result'[c] = <<>>
       THEN /\ pc' = [pc EXCEPT ![c] = "done"]
            /\ idx' = idx
       ELSE /\ pc' = [pc EXCEPT ![c] = "send"]
            /\ idx' = [idx EXCEPT ![c] = 1]
  /\ UNCHANGED <<now, schedVars, storeVars, nCycles, cnow, log, histVars>>
  /\ UNCHANGED appVars

\* no catch at line 72: the rejection reaches the cron job and ends it
ScanFails_unregisters(c) ==
  /\ pc[c] = "scan"
  /\ pc' = [pc EXCEPT ![c] = "aborted"]
  /\ timers' = 0
  /\ UNCHANGED <<now, isRunning, startCalls, storeVars, nCycles, cnow, result,
                 idx, log, histVars>>
  /\ UNCHANGED appVars

\* the find query rejects: the outer catch at line 72 ends the cycle
ScanFails(c) ==
  /\ pc[c] = "scan"
  /\ pc' = [pc EXCEPT ![c] = "aborted"]
  /\ UNCHANGED <<now, schedVars, storeVars, nCycles, cnow, result, idx, log,
                 histVars>>
  /\ UNCHANGED appVars

\* a finally in place of the catch: the flag is written after a failed send too
Send_marksOnFailure(c) ==
  /\ pc[c] = "send"
  /\ LET r == result[c][idx[c]] IN
       IF ~userOk[r]
         THEN /\ log' = [log EXCEPT ![c][r] = "skipped"]
              /\ DispatchFailed(c)
              /\ UNCHANGED attempts
         ELSE /\ attempts' = [attempts EXCEPT ![r] =
                     IF notified[r] # TRUE /\ @ < 2 THEN @ + 1 ELSE @]
              /\ \/ /\ log' = [log EXCEPT ![c][r] = "sent"]
                    /\ pc' = [pc EXCEPT ![c] = "save"]
                    /\ idx' = idx
                 \/ /\ log' = [log EXCEPT ![c][r] = "failed"]
                    /\ pc' = [pc EXCEPT ![c] = "save"]
                    /\ idx' = idx
  /\ UNCHANGED <<now, schedVars, storeVars, nCycles, cnow, result, cleared>>
  /\ UNCHANGED appVars

\* a send that does not need the owner: a reminder without one is sent too
Send_ignoresMissingUser(c) ==
  /\ pc[c] = "send"
  /\ LET r == result[c][idx[c]] IN
       /\ attempts' = [attempts EXCEPT ![r] =
              IF notified[r] # TRUE /\ @ < 2 THEN @ + 1 ELSE @]
       /\ \/ /\ log' = [log EXCEPT ![c][r] = "sent"]
             /\ pc' = [pc EXCEPT ![c] = "save"]
             /\ idx' = idx
          \/ /\ log' = [log EXCEPT ![c][r] = "failed"]
             /\ DispatchFailed(c)
  /\ UNCHANGED <<now, schedVars, storeVars, nCycles, cnow, result, cleared>>
  /\ UNCHANGED appVars

\* lines 56-60: the send for the current reminder, and its outcome
Send(c) ==
  /\ pc[c] = "send"
  /\ LET r == result[c][idx[c]] IN
       IF ~userOk[r]
         THEN \* reminder.userId is null: toString() throws, nothing is sent
              /\ log' = [log EXCEPT ![c][r] = "skipped"]
              /\ DispatchFailed(c)
              /\ UNCHANGED attempts
         ELSE /\ attempts' = [attempts EXCEPT ![r] =
                     IF notified[r] # TRUE /\ @ < 2 THEN @ + 1 ELSE @]
              /\ \/ /\ log' = [log EXCEPT ![c][r] = "sent"]
                    /\ pc' = [pc EXCEPT ![c] = "save"]
                    /\ idx' = idx
                 \/ /\ log' = [log EXCEPT ![c][r] = "failed"]
                    /\ DispatchFailed(c)
  /\ UNCHANGED <<now, schedVars, storeVars, nCycles, cnow, result, cleared>>
  /\ UNCHANGED appVars

\* lines 63-64: reminder.notified = true; reminder.save()
Save(c) ==
  /\ pc[c] = "save"
  /\ LET r == result[c][idx[c]] IN
       \/ /\ exists[r]
          /\ notified' = MarkNotified(r)
          /\ log' = [log EXCEPT ![c][r] = "marked"]
          /\ NextReminder(c)
       \/ \* the write rejects, or the document is gone
          /\ notified' = notified
          /\ log' = [log EXCEPT ![c][r] = "saveFailed"]
          /\ DispatchFailed(c)
  /\ UNCHANGED <<now, schedVars, dueAt, userOk, exists, nCycles, cnow, result,
                 histVars>>
  /\ UNCHANGED appVars

\* ------------------------------------------------------- other operations
\* an updateMany whose update document unsets nothing
resetAllNotifications_noUnset ==
  /\ \E r \in Reminders : exists[r] /\ notified[r]
  /\ cleared' = [r \in Reminders |-> cleared[r] \/ (exists[r] /\ notified[r])]
  /\ UNCHANGED <<now, schedVars, storeVars, cycleVars, attempts>>
  /\ UNCHANGED appVars

\* an updateOne in place of the updateMany: one document is cleared
resetAllNotifications_updateOne ==
  /\ \E r \in Reminders :
       /\ exists[r] /\ notified[r]
       /\ notified' = [notified EXCEPT ![r] = FALSE]
       /\ attempts' = [attempts EXCEPT ![r] = 0]
       /\ cleared' = [cleared EXCEPT ![r] = TRUE]
  /\ UNCHANGED <<now, schedVars, dueAt, userOk, exists, cycleVars>>
  /\ UNCHANGED appVars

\* lines 84-94: updateMany({notified: true}, {$unset: {notified: 1}})
resetAllNotifications ==
  /\ \E r \in Reminders : exists[r] /\ notified[r]
  /\ \/ /\ notified' = [r \in Reminders |->
                          IF exists[r] THEN FALSE ELSE notified[r]]
        /\ attempts' = [r \in Reminders |->
                          IF exists[r] /\ notified[r] THEN 0 ELSE attempts[r]]
        /\ cleared' = [r \in Reminders |->
                         cleared[r] \/ (exists[r] /\ notified[r])]
     \/ \* the updateMany rejects: the catch at lines 91-93 logs and returns
        UNCHANGED <<notified, attempts, cleared>>
  /\ UNCHANGED <<now, schedVars, dueAt, userOk, exists, cycleVars>>
  /\ UNCHANGED appVars

\* the reminder's owner deletes it
DeleteReminder(r) ==
  /\ exists[r]
  /\ Cardinality({q \in Reminders : ~exists[q]}) < MaxDeleted
  /\ exists' = [exists EXCEPT ![r] = FALSE]
  /\ UNCHANGED <<now, schedVars, dueAt, userOk, notified, cycleVars, histVars>>
  /\ UNCHANGED appVars

\* ------------------------------------------------------ request handlers
\* the handler of request q sends its response and returns
Respond(q, status, token, data) ==
  /\ resp' = [resp EXCEPT ![q] =
                [status |-> status, token |-> token, data |-> data]]
  /\ rpc' = [rpc EXCEPT ![q] = "done"]

\* the handler of request q goes on to its next await
Await(q, at) ==
  /\ rpc' = [rpc EXCEPT ![q] = at]
  /\ resp' = resp

\* a request arrives and its handler runs up to the answer of its first query
Receive(q, data) ==
  /\ nRequests < MaxRequests
  /\ q = nRequests + 1
  /\ nRequests' = q
  /\ held' = [held EXCEPT ![q] = data]

\* signUp, lines 255-293: the field checks and userModel.findOne({email})
signUp(fullName, email, password, confirmPassword) ==
  \E q \in Requests :
    /\ Receive(q, [NoData EXCEPT !.op = "signUp", !.email = email,
                                 !.password = password])
    /\ IF ~fullName \/ email = Missing \/ password = NoPassword
            \/ confirmPassword = NoPassword
         THEN Respond(q, 400, NoToken, 0)
         ELSE IF \E u \in UserIds : Present(u) /\ user[u].email = email
           THEN Respond(q, 409, NoToken, 0)
           ELSE IF password # confirmPassword
             THEN Respond(q, 400, NoToken, 0)
             ELSE IF password.len < MinPasswordLength
               THEN Respond(q, 400, NoToken, 0)
               ELSE IF password.len > MaxPasswordLength
                 THEN Respond(q, 400, NoToken, 0)
                 ELSE Await(q, "signUp.create")
    /\ UNCHANGED <<reminderVars, authVars, contentVars, mailed>>

\* a create that stores the new user as already verified
signUpCreate_verified(q) ==
  /\ rpc[q] = "signUp.create"
  /\ \/ /\ nUsers < MaxUsers
        /\ ~\E u \in UserIds : Present(u) /\ user[u].email = held[q].email
        /\ nUsers' = nUsers + 1
        /\ user' = [user EXCEPT ![nUsers'] =
                      [state |-> "present", email |-> held[q].email,
                       password |-> argon2Hash(held[q].password),
                       isEmailVerified |-> TRUE,
                       emailVerificationToken |-> Missing,
                       emailVerificationExpires |-> 0]]
        /\ held' = [held EXCEPT ![q].id = nUsers']
        /\ Await(q, "signUp.token")
     \/ /\ Respond(q, 500, NoToken, 0)
        /\ UNCHANGED <<user, nUsers, held>>
  /\ UNCHANGED <<reminderVars, clock, verifiedOk, contentVars, nRequests, mailed>>

\* signUp, lines 295-301: argon2.hash and userModel.create; the schema gives
\* isEmailVerified its default and the unique index on email rejects a
\* second document with the same email
signUpCreate(q) ==
  /\ rpc[q] = "signUp.create"
  /\ \/ /\ nUsers < MaxUsers
        /\ ~\E u \in UserIds : Present(u) /\ user[u].email = held[q].email
        /\ nUsers' = nUsers + 1
        /\ user' = [user EXCEPT ![nUsers'] =
                      [state |-> "present", email |-> held[q].email,
                       password |-> argon2Hash(held[q].password),
                       isEmailVerified |-> FALSE,
                       emailVerificationToken |-> Missing,
                       emailVerificationExpires |-> 0]]
        /\ held' = [held EXCEPT ![q].id = nUsers']
        /\ Await(q, "signUp.token")
     \/ \* the create rejects: the catch at line 314 answers 500
        /\ Respond(q, 500, NoToken, 0)
        /\ UNCHANGED <<user, nUsers, held>>
  /\ UNCHANGED <<reminderVars, clock, verifiedOk, contentVars, nRequests, mailed>>

\* sendVerificationEmail, lines 11-22: findById, the token and its expiry,
\* user.save(); whatever it throws, signUp catches at line 307 and answers 201
sendVerificationEmail(q) ==
  /\ rpc[q] = "signUp.token"
  /\ LET u == held[q].id IN
       \/ /\ Present(u)
          /\ user' = [user EXCEPT
                        ![u].emailVerificationToken = generateVerificationToken(u),
                        ![u].emailVerificationExpires = clock + TokenLifetimeHours]
          /\ Await(q, "signUp.mail")
       \/ \* the user is gone, or the save rejects
          /\ user' = user
          /\ Respond(q, 201, NoToken, 0)
  /\ UNCHANGED <<reminderVars, clock, nUsers, verifiedOk, contentVars,
                 nRequests, held, mailed>>

\* sendVerificationEmail line 25, then signUp lines 312-314: the email is
\* sent or the send fails, and signUp answers 201 either way
sendEmailVerification(q) ==
  /\ rpc[q] = "signUp.mail"
  /\ \E sent \in BOOLEAN : mailed' = [mailed EXCEPT ![q] = sent]
  /\ Respond(q, 201, NoToken, 0)
  /\ UNCHANGED <<reminderVars, authVars, contentVars, nRequests, held>>

\* loginUser, lines 362-379: the field check and userModel.findOne({email})
loginUser(email, password) ==
  \E q \in Requests :
    /\ IF email = Missing \/ password = NoPassword
         THEN /\ Receive(q, [NoData EXCEPT !.op = "loginUser"])
              /\ Respond(q, 400, NoToken, 0)
         ELSE IF ~\E u \in UserIds : Present(u) /\ user[u].email = email
           THEN /\ Receive(q, [NoData EXCEPT !.op = "loginUser",
                                             !.email = email])
                /\ Respond(q, 404, NoToken, 0)
           ELSE \E u \in UserIds :
                  /\ Present(u) /\ user[u].email = email
                  /\ Receive(q, [NoData EXCEPT
                                   !.op = "loginUser", !.email = email,
                                   !.password = password, !.id = u,
                                   !.hash = user[u].password,
                                   !.isEmailVerified = user[u].isEmailVerified])
                  /\ Await(q, "loginUser.verify")
    /\ UNCHANGED <<reminderVars, authVars, contentVars, mailed>>

\* the login of before the verification requirement: no check of the flag
loginUserVerify_noFlagCheck(q) ==
  /\ rpc[q] = "loginUser.verify"
  /\ IF ~argon2Verify(held[q].hash, held[q].password)
       THEN Respond(q, 400, NoToken, 0)
       ELSE Respond(q, 200, generateToken(held[q].id), held[q].id)
  /\ UNCHANGED <<reminderVars, authVars, contentVars, nRequests, held, mailed>>

\* loginUser, lines 381-411: argon2.verify, the check of isEmailVerified on
\* the document that was found, and the token
loginUserVerify(q) ==
  /\ rpc[q] = "loginUser.verify"
  /\ IF ~argon2Verify(held[q].hash, held[q].password)
       THEN Respond(q, 400, NoToken, 0)
       ELSE IF ~held[q].isEmailVerified
         THEN Respond(q, 403, NoToken, 0)
         ELSE Respond(q, 200, generateToken(held[q].id), held[q].id)
  /\ UNCHANGED <<reminderVars, authVars, contentVars, nRequests, held, mailed>>

\* the findOne with $gte in place of $gt on the expiry
verifyEmail_expiryInclusive(token) ==
  \E q \in Requests :
    /\ IF token # Missing
            /\ \E u \in UserIds :
                 /\ Present(u)
                 /\ user[u].emailVerificationToken = token
                 /\ user[u].emailVerificationExpires >= clock
         THEN \E u \in UserIds :
                /\ Present(u)
                /\ user[u].emailVerificationToken = token
                /\ user[u].emailVerificationExpires >= clock
                /\ Receive(q, [NoData EXCEPT !.op = "verifyEmail", !.id = u,
                                             !.token = token])
                /\ Await(q, "verifyEmail.save")
         ELSE /\ Receive(q, [NoData EXCEPT !.op = "verifyEmail",
                                           !.token = token])
              /\ Respond(q, 400, NoToken, 0)
    /\ UNCHANGED <<reminderVars, authVars, contentVars, mailed>>

\* GET /verify-email and verifyEmail lines 35-42: the check of the query
\* parameter and findOne on the token with an expiry after now
verifyEmail(token) ==
  \E q \in Requests :
    /\ IF token # Missing
            /\ \E u \in UserIds :
                 /\ Present(u)
                 /\ user[u].emailVerificationToken = token
                 /\ user[u].emailVerificationExpires > clock
         THEN \E u \in UserIds :
                /\ Present(u)
                /\ user[u].emailVerificationToken = token
                /\ user[u].emailVerificationExpires > clock
                /\ Receive(q, [NoData EXCEPT !.op = "verifyEmail", !.id = u,
                                             !.token = token])
                /\ Await(q, "verifyEmail.save")
         ELSE /\ Receive(q, [NoData EXCEPT !.op = "verifyEmail",
                                           !.token = token])
              /\ Respond(q, 400, NoToken, 0)
    /\ UNCHANGED <<reminderVars, authVars, contentVars, mailed>>

\* a save that sets the flag and leaves the token and its expiry stored
verifyEmailSave_keepsToken(q) ==
  /\ rpc[q] = "verifyEmail.save"
  /\ LET u == held[q].id IN
       \/ /\ Present(u)
          /\ user' = [user EXCEPT ![u].isEmailVerified = TRUE]
          /\ verifiedOk' = verifiedOk \cup {u}
          /\ Respond(q, 200, NoToken, 0)
       \/ /\ UNCHANGED <<user, verifiedOk>>
          /\ Respond(q, 400, NoToken, 0)
  /\ UNCHANGED <<reminderVars, clock, nUsers, contentVars, nRequests, held,
                 mailed>>

\* verifyEmail lines 45-50: the flag, the cleared token, user.save()
verifyEmailSave(q) ==
  /\ rpc[q] = "verifyEmail.save"
  /\ LET u == held[q].id IN
       \/ /\ Present(u)
          /\ user' = [user EXCEPT ![u].isEmailVerified = TRUE,
                                  ![u].emailVerificationToken = Missing,
                                  ![u].emailVerificationExpires = 0]
          /\ verifiedOk' = verifiedOk \cup {u}
          /\ Respond(q, 200, NoToken, 0)
       \/ \* the user is gone, or the save rejects: the catch at line 52
          /\ UNCHANGED <<user, verifiedOk>>
          /\ Respond(q, 400, NoToken, 0)
  /\ UNCHANGED <<reminderVars, clock, nUsers, contentVars, nRequests, held,
                 mailed>>

\* deleteOne, line 594: findByIdAndDelete
deleteOne(u) ==
  /\ Present(u)
  /\ Cardinality({v \in UserIds : user[v].state = "deleted"}) < MaxDeletedUsers
  /\ user' = [user EXCEPT ![u].state = "deleted"]
  /\ UNCHANGED <<reminderVars, clock, nUsers, verifiedOk, contentVars, reqVars>>

\* time passes
HoursPass ==
  /\ clock < MaxClock
  /\ clock' = clock + TickHours
  /\ UNCHANGED <<reminderVars, user, nUsers, verifiedOk, contentVars, reqVars>>

\* getQuiz, lines 11-78: the checks of the body, generateQuiz, the user id
getQuiz(valid, authorized) ==
  \E q \in Requests :
    /\ Receive(q, [NoData EXCEPT !.op = "getQuiz"])
    /\ IF ~valid
         THEN Respond(q, 400, NoToken, 0)
         ELSE \/ \* generateQuiz rejects: the catch at line 101
                 Respond(q, 500, NoToken, 0)
              \/ IF ~authorized
                   THEN Respond(q, 401, NoToken, 0)
                   ELSE Await(q, "getQuiz.save")
    /\ UNCHANGED <<reminderVars, authVars, contentVars, mailed>>

\* the notification is sent although the save rejected
getQuizSave_notifiesAnyway(q) ==
  /\ rpc[q] = "getQuiz.save"
  /\ \/ /\ nQuizzes' = nQuizzes + 1
        /\ held' = [held EXCEPT ![q].id = nQuizzes']
        /\ Await(q, "getQuiz.notify")
     \/ /\ UNCHANGED <<nQuizzes, held>>
        /\ Await(q, "getQuiz.notify")
  /\ UNCHANGED <<reminderVars, authVars, chatLen, nRequests, mailed>>

\* getQuiz, line 80: quiz.save()
getQuizSave(q) ==
  /\ rpc[q] = "getQuiz.save"
  /\ \/ /\ nQuizzes' = nQuizzes + 1
        /\ held' = [held EXCEPT ![q].id = nQuizzes']
        /\ Await(q, "getQuiz.notify")
     \/ \* the save rejects: the catch at line 101 answers 500
        /\ UNCHANGED <<nQuizzes, held>>
        /\ Respond(q, 500, NoToken, 0)
  /\ UNCHANGED <<reminderVars, authVars, chatLen, nRequests, mailed>>

\* getQuiz, lines 82-100: sendActivityNotification inside its own try, then
\* the response with the saved quiz
getQuizNotify(q) ==
  /\ rpc[q] = "getQuiz.notify"
  /\ \E sent \in BOOLEAN : mailed' = [mailed EXCEPT ![q] = sent]
  /\ Respond(q, 200, NoToken, held[q].id)
  /\ UNCHANGED <<reminderVars, authVars, contentVars, nRequests, held>>

\* sendMessage, lines 174-187: Chat.findOne and the user message pushed
sendMessage(ch, found) ==
  \E q \in Requests :
    /\ IF ~found
         THEN /\ Receive(q, [NoData EXCEPT !.op = "sendMessage"])
              /\ Respond(q, 404, NoToken, 0)
         ELSE /\ Receive(q, [NoData EXCEPT !.op = "sendMessage", !.id = ch,
                                           !.len = chatLen[ch] + 1])
              /\ Await(q, "sendMessage.reply")
    /\ UNCHANGED <<reminderVars, authVars, contentVars, mailed>>

\* sendMessage, lines 190-222: OpenAIService.processMessage and the assistant
\* message pushed (a failed title generation is caught at line 217)
sendMessageReply(q) ==
  /\ rpc[q] = "sendMessage.reply"
  /\ \/ /\ held' = [held EXCEPT ![q].len = @ + 1]
        /\ Await(q, "sendMessage.save")
     \/ \* the AI service rejects: the catch at line 254 answers 500
        /\ held' = held
        /\ Respond(q, 500, NoToken, 0)
  /\ UNCHANGED <<reminderVars, authVars, contentVars, nRequests, mailed>>

\* sendMessage, lines 225-228: chat.save() writes the two pushed messages;
\* only a chat that now holds its first pair goes on to the notification
sendMessageSave(q) ==
  /\ rpc[q] = "sendMessage.save"
  /\ \/ /\ chatLen' = [chatLen EXCEPT ![held[q].id] = @ + 2]
        /\ IF held[q].len = 2
             THEN Await(q, "sendMessage.notify")
             ELSE Respond(q, 200, NoToken, held[q].id)
     \/ \* the save rejects: the catch at line 254 answers 500
        /\ chatLen' = chatLen
        /\ Respond(q, 500, NoToken, 0)
  /\ UNCHANGED <<reminderVars, authVars, nQuizzes, nRequests, held, mailed>>

\* sendMessage, lines 229-251: sendActivityNotification inside its own try,
\* then the response
sendMessageNotify(q) ==
  /\ rpc[q] = "sendMessage.notify"
  /\ \E sent \in BOOLEAN : mailed' = [mailed EXCEPT ![q] = sent]
  /\ Respond(q, 200, NoToken, held[q].id)
  /\ UNCHANGED <<reminderVars, authVars, contentVars, nRequests, held>>

\* the activity router: the first route that matches takes the request; its
\* protect middleware answers 401 without a user, else its handler answers
activityRouter(method, path, authenticated) ==
  \E q \in Requests :
    LET k == FirstMatch(ActivityRoutes, 1, method, path) IN
      /\ IF k = 0
           THEN /\ Receive(q, [NoData EXCEPT !.op = "notFound",
                                             !.method = method, !.path = path])
                /\ Respond(q, 404, NoToken, 0)
           ELSE IF ~authenticated
             THEN /\ Receive(q, [NoData EXCEPT !.op = "protect", !.id = k,
                                               !.method = method, !.path = path])
                  /\ Respond(q, 401, NoToken, 0)
             ELSE /\ Receive(q, [NoData EXCEPT
                                   !.op = ActivityRoutes[k].handler, !.id = k,
                                   !.method = method, !.path = path])
                  /\ Respond(q, 200, NoToken, 0)
      /\ UNCHANGED <<reminderVars, authVars, contentVars, mailed>>

Next ==
  \/ startScheduler
  \/ stopScheduler
  \/ CronTick
  \/ triggerManualCheck
  \/ \E c \in Cycles : Scan(c)
  \/ \E c \in Cycles : ScanFails(c)
  \/ \E c \in Cycles : Send(c)
  \/ \E c \in Cycles : Save(c)
  \/ resetAllNotifications
  \/ \E r \in Reminders : DeleteReminder(r)

Spec == Init /\ [][Next]_vars

\* the scheduler at rest, for the specifications of the request handlers
InitRequests ==
  /\ now = 0
  /\ isRunning = FALSE
  /\ timers = 0
  /\ startCalls = 0
  /\ dueAt = [r \in Reminders |-> FirstDue]
  /\ userOk = [r \in Reminders |-> TRUE]
  /\ exists = [r \in Reminders |-> TRUE]
  /\ notified = [r \in Reminders |-> FALSE]
  /\ nCycles = 0
  /\ pc = [c \in Cycles |-> "idle"]
  /\ cnow = [c \in Cycles |-> 0]
  /\ result = [c \in Cycles |-> <<>>]
  /\ idx = [c \in Cycles |-> 0]
  /\ log = [c \in Cycles |-> [r \in Reminders |-> "none"]]
  /\ attempts = [r \in Reminders |-> 0]
  /\ cleared = [r \in Reminders |-> FALSE]
  /\ InitApp

NextAuth ==
  \/ \E fullName \in BOOLEAN, email \in Emails \cup {Missing},
        password, confirmPassword \in Passwords \cup {NoPassword} :
       signUp(fullName, email, password, confirmPassword)
  \/ \E q \in Requests : signUpCreate(q)
  \/ \E q \in Requests : sendVerificationEmail(q)
  \/ \E q \in Requests : sendEmailVerification(q)
  \/ \E email \in Emails \cup {Missing}, password \in Passwords \cup {NoPassword} :
       loginUser(email, password)
  \/ \E q \in Requests : loginUserVerify(q)
  \/ \E token \in UserIds \cup {Missing} : verifyEmail(token)
  \/ \E q \in Requests : verifyEmailSave(q)
  \/ \E u \in UserIds : deleteOne(u)
  \/ HoursPass

SpecAuth == InitRequests /\ [][NextAuth]_vars

NextActivity ==
  \/ \E valid, authorized \in BOOLEAN : getQuiz(valid, authorized)
  \/ \E q \in Requests : getQuizSave(q)
  \/ \E q \in Requests : getQuizNotify(q)
  \/ \E ch \in Chats, found \in BOOLEAN : sendMessage(ch, found)
  \/ \E q \in Requests : sendMessageReply(q)
  \/ \E q \in Requests : sendMessageSave(q)
  \/ \E q \in Requests : sendMessageNotify(q)

SpecActivity == InitRequests /\ [][NextActivity]_vars

NextRouter ==
  \E method \in Methods, path \in Paths, authenticated \in BOOLEAN :
    activityRouter(method, path, authenticated)

SpecRouter == InitRequests /\ [][NextRouter]_vars

\* ------------------------------------------------------------ vocabulary
InFlight(c) == pc[c] \in {"scan", "send", "save"}
Finished(c) == pc[c] = "done"
\* the time window of the claim, on minute counts
InWindow(r, t) == t <= dueAt[r] /\ dueAt[r] <= t + LookaheadMinutes
\* this step is the answer of the store to the find query of cycle c
ScanStep(c) == pc[c] = "scan" /\ pc'[c] \in {"send", "done"}
\* this step is the end of the send of cycle c for its current reminder
SendStep(c) == pc[c] = "send" /\ <<pc[c], idx[c], log[c]>>' # <<pc[c], idx[c], log[c]>>
\* this step is the end of reminder.save() of cycle c for its current reminder
SaveStep(c) == pc[c] = "save" /\ pc'[c] # "save"
\* the reminder cycle c is working on
current(c) == result[c][idx[c]]
\* cycle c has called the dispatch for reminder r
Dispatched(c, r) == log[c][r] \in {"failed", "sent", "marked", "saveFailed"}

\* ------------------------------------------------------------------ claims

\* C1: for every reminder, the dispatch send is attempted at most once while
\* its notified flag is unset, whatever the number and interleaving of manual
\* and timer-driven cycles.
C1_AtMostOneAttempt == \A r \in Reminders : attempts[r] <= 1

\* C2: a cycle never selects a reminder whose notified flag is true in the
\* store when its scan is answered, and it dispatches only what it selected;
\* so once the flag is true, a cycle that scans afterwards sends nothing for
\* the reminder, as long as the flag has not been unset.
C2_NotifiedNeverDispatchedAgain ==
  /\ [][\A c \in Cycles : ScanStep(c) =>
          \A r \in Range(result'[c]) : notified[r] # TRUE]_vars
  /\ [](\A c \in Cycles : \A r \in Reminders :
          Dispatched(c, r) => r \in Range(result[c]))

\* a second manual cycle at the same minute has ended without touching a
\* reminder that the first one marked, and that is still in the window
C2_Witness ==
  \E r \in Reminders :
    /\ log[1][r] = "marked" /\ notified[r] /\ exists[r] /\ ~cleared[r]
    /\ Finished(2) /\ cnow[2] = cnow[1] /\ InWindow(r, cnow[2])
    /\ log[2][r] = "none"

\* C3: the scan of a cycle whose now is t selects exactly the reminders of the
\* store whose notified flag is not true and whose due time d satisfies
\* t <= d <= t + 5 minutes, both ends included; the cycle dispatches no other.
C3_ScanSelectsExactlyTheWindow ==
  /\ [][\A c \in Cycles : ScanStep(c) =>
          Range(result'[c]) =
            {r \in Reminders :
               exists[r] /\ notified[r] # TRUE /\ InWindow(r, cnow[c])}]_vars
  /\ [](\A c \in Cycles : \A r \in Reminders :
          log[c][r] # "none" => r \in Range(result[c]))

\* a scan selected a reminder due exactly now and one due exactly 5 minutes
\* later, and an earlier scan left out the one that was then too distant
C3_Witness ==
  /\ \E c \in Cycles : \E r, q \in Range(result[c]) :
       dueAt[r] = cnow[c] /\ dueAt[q] = cnow[c] + LookaheadMinutes
  /\ \E c \in Cycles : \E r \in Reminders :
       /\ Finished(c) /\ exists[r] /\ ~notified[r] /\ ~cleared[r]
       /\ dueAt[r] > cnow[c] + LookaheadMinutes /\ r \notin Range(result[c])

\* C4: a cycle calls the dispatch at most once for a reminder and, when it has
\* completed, exactly once for each reminder it selected; where the send and
\* the write of the flag succeeded the store shows notified = true (unless
\* resetAllNotifications has unset the flag since).
C4_DispatchedOnceAndMarked ==
  /\ [][\A c \in Cycles : SendStep(c) => log[c][result[c][idx[c]]] = "none"]_vars
  /\ [](\A c \in Cycles : Finished(c) =>
          \A r \in Range(result[c]) :
            /\ log[c][r] # "none"
            /\ (log[c][r] = "marked" /\ ~cleared[r]) => notified[r] = TRUE)

\* a single cycle found one pending reminder in the window, sent and marked it
C4_Witness ==
  \E c \in Cycles : \E r \in Reminders :
    /\ Finished(c) /\ result[c] = <<r>> /\ InWindow(r, cnow[c])
    /\ log[c][r] = "marked" /\ notified[r] = TRUE /\ attempts[r] = 1

\* C5: a call of startScheduler while the scheduler is running registers no
\* timer, starts no cycle and leaves the scheduler running.
C5_StartIsIdempotent ==
  [][(startCalls' # startCalls /\ isRunning) =>
       (timers' = timers /\ isRunning' /\ nCycles' = nCycles)]_vars

\* startScheduler has been called twice without a stop in between
C5_Witness == startCalls = 2 /\ timers = 1 /\ isRunning

\* C6: while the scheduler is stopped no minute tick starts a cycle.
C6_NoTimerCycleAfterStop ==
  [][(now' # now /\ nCycles' # nCycles) => isRunning]_vars

\* C7: at most one periodic timer is registered, whatever the sequence of
\* startScheduler and stopScheduler calls.
C7_AtMostOneTimer == timers <= 1

\* C8: at most one notification cycle is in flight at any time.
C8_OneCycleInFlight == Cardinality({c \in Cycles : InFlight(c)}) <= 1

\* C9: a reminder whose dispatch failed does not end the cycle: when the cycle
\* has completed, every reminder that follows it in the scan result has been
\* dispatched (or skipped for want of its owner) and, where its send and write
\* succeeded, is notified; the step in which a dispatch fails changes no flag.
C9_FailureDoesNotStopTheCycle ==
  /\ [](\A c \in Cycles : Finished(c) =>
          \A i, j \in 1..Len(result[c]) :
            (i < j /\ log[c][result[c][i]] \in {"failed", "skipped", "saveFailed"}) =>
              /\ log[c][result[c][j]] # "none"
              /\ (log[c][result[c][j]] = "marked" /\ ~cleared[result[c][j]])
                   => notified[result[c][j]] = TRUE)
  /\ [][\A c \in Cycles :
          (SendStep(c) /\ log'[c][result[c][idx[c]]] \in {"failed", "skipped"})
            => notified' = notified]_vars

\* the dispatch of the first selected reminder failed, the second was sent
\* and marked in the same cycle, and the first is still pending
C9_Witness ==
  \E c \in Cycles :
    /\ Finished(c) /\ Len(result[c]) = 2
    /\ log[c][result[c][1]] = "failed" /\ notified[result[c][1]] = FALSE
    /\ log[c][result[c][2]] = "marked" /\ notified[result[c][2]] = TRUE

\* C10: a failed dispatch leaves the reminder's flag as it was, and every scan
\* answered afterwards selects the reminder again while its flag is not true
\* and its due time is within [now, now + 5 minutes] of that cycle; a cycle
\* that selected it attempts it before it completes.
C10_FailedIsRetried ==
  /\ [][\A c \in Cycles :
          (SendStep(c) /\ log'[c][result[c][idx[c]]] = "failed")
            => notified'[result[c][idx[c]]] = notified[result[c][idx[c]]]]_vars
  /\ [][\A c \in Cycles : ScanStep(c) =>
          \A r \in Reminders :
            ( /\ \E d \in Cycles : log[d][r] = "failed"
              /\ exists[r] /\ notified[r] # TRUE /\ InWindow(r, cnow[c]) )
              => r \in Range(result'[c])]_vars
  /\ [](\A c \in Cycles : Finished(c) =>
          \A r \in Range(result[c]) : log[c][r] # "none")

\* the first cycle's send failed; a cycle of a later minute, for which the
\* reminder is due exactly now, selected it and sent it
C10_Witness ==
  \E r \in Reminders :
    /\ log[1][r] = "failed" /\ Finished(1)
    /\ cnow[2] > cnow[1] /\ dueAt[r] = cnow[2]
    /\ r \in Range(result[2]) /\ log[2][r] = "marked"
    /\ attempts[r] = 2

\* C11: the step in which the scan query of a cycle fails changes no reminder,
\* no log and no timer; a cycle that ended so has selected nothing and has
\* dispatched nothing; and every later minute tick begins, for each registered
\* timer, a fresh cycle that reads the clock anew and has nothing selected.
C11_ScanFailureAbortsCleanly ==
  /\ [][\A c \in Cycles :
          (pc[c] = "scan" /\ pc'[c] = "aborted")
            => UNCHANGED <<storeVars, schedVars, result, log, attempts>>]_vars
  /\ [](\A c \in Cycles : pc[c] = "aborted" =>
          /\ result[c] = <<>>
          /\ \A r \in Reminders : log[c][r] = "none")
  /\ [][now' # now =>
          /\ nCycles' = nCycles + timers
          /\ \A c \in (nCycles + 1)..nCycles' :
               /\ pc'[c] = "scan" /\ cnow'[c] = now'
               /\ result'[c] = <<>>
               /\ \A r \in Reminders : log'[c][r] = "none"]_vars

\* the scan of the first cycle failed; the timer is still registered and the
\* cycle of the next tick selected a reminder and marked it
C11_Witness ==
  /\ pc[1] = "aborted" /\ timers >= 1
  /\ cnow[2] > cnow[1] /\ Finished(2)
  /\ \E r \in Range(result[2]) : log[2][r] = "marked" /\ log[1][r] = "none"

\* C12: when the reminder a cycle is about to mark has been deleted since the
\* scan, the end of the mark step records no failure for it.
C12_MarkOfDeletedIsNoOp ==
  [][\A c \in Cycles :
       (SaveStep(c) /\ ~exists[current(c)])
         => /\ log'[c][current(c)] # "saveFailed"
            /\ ~exists'[current(c)]]_vars

C14_PastDueSelectedAfterReset ==
  [][\A c \in Cycles : ScanStep(c) =>
       \A r \in Reminders :
         (cleared[r] /\ exists[r] /\ notified[r] # TRUE /\ dueAt[r] < cnow[c])
           => r \in Range(result'[c])]_vars

\* C14 (amended): a reset leaves no reminder it cleared with a true flag, and
\* a scan answered afterwards selects a cleared reminder exactly when its due
\* time is within [now, now + 5 minutes] of the cycle (and its flag has not
\* been set again); a cleared reminder whose due time has passed is not
\* selected.
C14_ResetReselectsWithinWindow ==
  /\ [][\A r \in Reminders :
          (~cleared[r] /\ cleared'[r]) => notified'[r] # TRUE]_vars
  /\ [][\A c \in Cycles : ScanStep(c) =>
          \A r \in Reminders :
            (cleared[r] /\ exists[r] /\ notified[r] # TRUE)
              => (r \in Range(result'[c]) <=> InWindow(r, cnow[c]))]_vars

\* the first cycle marked a reminder, a reset cleared it, and the second
\* cycle selected it again and sent for it a second time
C14_Witness ==
  \E r \in Reminders :
    /\ log[1][r] = "marked" /\ cleared[r]
    /\ r \in Range(result[2]) /\ Dispatched(2, r)

C16_IncludedAtOrAfterCreation ==
  [][\A c \in Cycles : ScanStep(c) =>
       \A r \in Reminders :
         (exists[r] /\ dueAt[r] - 3 <= cnow[c] /\ r \notin Range(result'[c]))
           => (notified[r] = TRUE \/ dueAt[r] > cnow[c] + LookaheadMinutes)]_vars

\* C16 (amended): a reminder of the store is missing from the result of a
\* scan exactly when its flag is true, or its due time is more than five
\* minutes after the cycle's now, or its due time is before the cycle's now.
C16_ExcludedExactlyWhen ==
  [][\A c \in Cycles : ScanStep(c) =>
       \A r \in Reminders : exists[r] =>
         ( r \notin Range(result'[c])
             <=> \/ notified[r] = TRUE
                 \/ dueAt[r] > cnow[c] + LookaheadMinutes
                 \/ dueAt[r] < cnow[c] )]_vars

\* a reminder never notified was selected by a cycle run before its due time
\* and left out by a cycle run after it
C16_Witness ==
  \E r \in Reminders :
    /\ exists[r] /\ notified[r] = FALSE /\ ~cleared[r]
    /\ cnow[1] <= dueAt[r] /\ r \in Range(result[1]) /\ Finished(1)
    /\ cnow[2] > dueAt[r] /\ r \notin Range(result[2]) /\ Finished(2)

\* C17: a response carries a token only if it is the 200 of a loginUser, the
\* token is that of the user found, and that user's isEmailVerified is true
\* in the store, set there by a verifyEmail that succeeded for that user; and
\* a loginUser whose password matches a user that is not verified in the
\* store ends with 403 and no token.
C17_NoTokenBeforeVerification ==
  /\ [](\A q \in Requests : resp[q].token # NoToken =>
          /\ held[q].op = "loginUser" /\ resp[q].status = 200
          /\ resp[q].token = generateToken(held[q].id)
          /\ user[held[q].id].isEmailVerified
          /\ held[q].id \in verifiedOk)
  /\ [][\A q \in Requests :
          ( /\ rpc[q] = "loginUser.verify" /\ rpc'[q] = "done"
            /\ argon2Verify(user[held[q].id].password, held[q].password)
            /\ ~user[held[q].id].isEmailVerified )
            => resp'[q] = [status |-> 403, token |-> NoToken, data |-> 0]]_vars

\* a user was created by a signUp, a verifyEmail succeeded for that user, and
\* a loginUser then answered with that user's token
C17_Witness ==
  \E u \in UserIds : \E q1, q2, q3 \in Requests :
    /\ held[q1].op = "signUp" /\ held[q1].id = u /\ resp[q1].status = 201
    /\ held[q2].op = "verifyEmail" /\ held[q2].id = u /\ resp[q2].status = 200
    /\ held[q3].op = "loginUser" /\ resp[q3].token = generateToken(u)

\* C18: a signUp that answered 201 has created a user and its response holds
\* neither a token nor user data; a user document comes into being only by
\* the create of a signUp, with isEmailVerified false and no token; and the
\* step that ends the sending of the verification email answers 201 with the
\* message only, whether the email was sent or not.
C18_SignUpAnswersMessageOnly ==
  /\ [](\A q \in Requests : (held[q].op = "signUp" /\ resp[q].status = 201) =>
          /\ resp[q].token = NoToken /\ resp[q].data = 0
          /\ held[q].id \in 1..nUsers)
  /\ [][\A u \in UserIds : (user[u].state = "none" /\ user'[u].state # "none") =>
          /\ user'[u].state = "present"
          /\ user'[u].isEmailVerified = FALSE
          /\ user'[u].emailVerificationToken = Missing
          /\ \E q \in Requests : rpc[q] = "signUp.create" /\ held'[q].id = u]_vars
  /\ [][\A q \in Requests : (rpc[q] = "signUp.mail" /\ rpc'[q] # rpc[q]) =>
          /\ rpc'[q] = "done"
          /\ resp'[q] = [status |-> 201, token |-> NoToken, data |-> 0]]_vars

\* two signUps answered 201 for two users that are not verified: the
\* verification email of one was sent, that of the other was not
C18_Witness ==
  \E q1, q2 \in Requests :
    /\ held[q1].op = "signUp" /\ resp[q1].status = 201 /\ mailed[q1]
    /\ held[q2].op = "signUp" /\ resp[q2].status = 201 /\ ~mailed[q2]
    /\ held[q1].id # held[q2].id
    /\ \A q \in {q1, q2} : Present(held[q].id) /\ ~user[held[q].id].isEmailVerified

\* C19: a getQuiz or sendMessage request comes to its activity notification
\* only by the step in which its save wrote the document, and sends the email
\* only from there; a save that writes nothing ends the request with 500 and
\* a request answered 500 has sent no email; and the step that ends the
\* notification answers 200 with the saved document and leaves the stored
\* documents as they are, whether the email was sent or not.
C19_NotificationOnlyAfterSave ==
  /\ [][\A q \in Requests :
          (rpc'[q] \in {"getQuiz.notify", "sendMessage.notify"} /\ rpc'[q] # rpc[q])
            => \/ rpc[q] = "getQuiz.save" /\ nQuizzes' = nQuizzes + 1
               \/ /\ rpc[q] = "sendMessage.save"
                  /\ chatLen'[held[q].id] = chatLen[held[q].id] + 2]_vars
  /\ [][\A q \in Requests : (mailed'[q] /\ ~mailed[q]) =>
          rpc[q] \in {"getQuiz.notify", "sendMessage.notify"}]_vars
  /\ [][\A q \in Requests :
          ( /\ rpc[q] \in {"getQuiz.save", "sendMessage.save"}
            /\ rpc'[q] # rpc[q] /\ UNCHANGED contentVars )
            => rpc'[q] = "done" /\ resp'[q].status = 500]_vars
  /\ [](\A q \in Requests : resp[q].status = 500 => ~mailed[q])
  /\ [][\A q \in Requests :
          (rpc[q] \in {"getQuiz.notify", "sendMessage.notify"} /\ rpc'[q] # rpc[q])
            => /\ resp'[q] = [status |-> 200, token |-> NoToken,
                              data |-> held[q].id]
               /\ UNCHANGED contentVars]_vars

\* a quiz was saved and answered 200 although its notification failed, the
\* first message pair of a chat was saved, notified and answered 200, and a
\* request whose write was rejected was answered 500 without a notification
C19_Witness ==
  \E q1, q2, q3 \in Requests :
    /\ held[q1].op = "getQuiz" /\ resp[q1].status = 200 /\ ~mailed[q1]
    /\ held[q1].id \in 1..nQuizzes
    /\ held[q2].op = "sendMessage" /\ resp[q2].status = 200 /\ mailed[q2]
    /\ chatLen[held[q2].id] = 2
    /\ held[q3].op = "sendMessage" /\ held[q3].len = 2 /\ resp[q3].status = 500
    /\ ~mailed[q3]

\* C20: while a cycle is at the reminder of position i of its scan result,
\* every earlier position has reached a final outcome (skipped, send failed,
\* marked, or write failed), every later position is untouched, and position
\* i itself is untouched before its send ends and sent before its mark ends;
\* the position moves forward by one at a time.
C20_OneAtATimeInScanOrder ==
  /\ [](\A c \in Cycles : pc[c] \in {"send", "save"} =>
          /\ idx[c] \in 1..Len(result[c])
          /\ \A j \in 1..Len(result[c]) :
               /\ j < idx[c] => log[c][result[c][j]] \in
                                  {"skipped", "failed", "marked", "saveFailed"}
               /\ j > idx[c] => log[c][result[c][j]] = "none"
          /\ log[c][current(c)] = (IF pc[c] = "send" THEN "none" ELSE "sent"))
  /\ [][\A c \in Cycles :
          (pc[c] \in {"send", "save"} /\ pc'[c] \in {"send", "save"})
            => idx'[c] \in {idx[c], idx[c] + 1}]_vars

\* a cycle is waiting for the write of its second reminder, having marked the
\* first
C20_Witness ==
  \E c \in Cycles :
    /\ pc[c] = "save" /\ idx[c] = 2
    /\ log[c][result[c][1]] = "marked" /\ log[c][result[c][2]] = "sent"

\* C21: a reminder whose flag is true has been marked by a cycle whose send
\* for it succeeded; the flag becomes true only in the step that ends the save
\* of a cycle that has sent for that reminder; and the flag of a reminder
\* stops being true only in a reset, which clears every reminder of the store
\* and touches no cycle.
C21_NotifiedOnlyAfterSuccessfulSend ==
  /\ [](\A r \in Reminders : notified[r] = TRUE =>
          \E c \in Cycles : log[c][r] = "marked")
  /\ [][\A r \in Reminders : (notified[r] # TRUE /\ notified'[r] = TRUE) =>
          \E c \in Cycles :
            SaveStep(c) /\ current(c) = r /\ log[c][r] = "sent"]_vars
  /\ [][\A r \in Reminders : (notified[r] = TRUE /\ notified'[r] # TRUE) =>
          /\ cleared'[r]
          /\ \A q \in Reminders : exists[q] => notified'[q] = FALSE
          /\ UNCHANGED cycleVars]_vars

\* the send of the first cycle failed and left the flag unset; the send of
\* the second succeeded and its save set the flag
C21_Witness ==
  \E r \in Reminders :
    /\ log[1][r] = "failed" /\ log[2][r] = "marked"
    /\ notified[r] = TRUE /\ ~cleared[r]

\* C22: the step in which the scheduler is stopped changes no cycle and no
\* reminder; a cycle in flight while the scheduler is stopped can take its
\* next step; and a cycle completes only when every reminder of its scan
\* result has reached a final outcome.
C22_StopDoesNotCancel ==
  /\ [][(isRunning /\ ~isRunning') => UNCHANGED <<cycleVars, storeVars>>]_vars
  /\ [](\A c \in Cycles : (InFlight(c) /\ ~isRunning) =>
          ENABLED (Scan(c) \/ Send(c) \/ Save(c)))
  /\ [](\A c \in Cycles : Finished(c) =>
          \A r \in Range(result[c]) :
            log[c][r] \in {"skipped", "failed", "marked", "saveFailed"})

\* the scheduler was started and is stopped, and a timer-driven cycle that has
\* marked its first reminder is waiting for the write of its second
C22_Witness ==
  \E c \in Cycles :
    /\ ~isRunning /\ startCalls >= 1 /\ cnow[c] >= 1
    /\ pc[c] = "save" /\ idx[c] = 2
    /\ log[c][result[c][1]] = "marked" /\ log[c][result[c][2]] = "sent"

\* C23: the send step for a reminder whose owner was not resolved sends
\* nothing, changes no reminder, and moves the cycle to its next reminder (or
\* ends it after the last); such a reminder is never dispatched and its flag
\* is never true.
C23_UnresolvedOwnerIsSkipped ==
  /\ [][\A c \in Cycles : (SendStep(c) /\ ~userOk[current(c)]) =>
          /\ log'[c][current(c)] = "skipped"
          /\ UNCHANGED <<storeVars, attempts>>
          /\ IF idx[c] < Len(result[c])
               THEN pc'[c] = "send" /\ idx'[c] = idx[c] + 1
               ELSE pc'[c] = "done"]_vars
  /\ [](\A c \in Cycles : \A r \in Reminders :
          ~userOk[r] => (~Dispatched(c, r) /\ notified[r] # TRUE))

\* a cycle skipped its first reminder, which has no owner, and went on to
\* send and mark its second
C23_Witness ==
  \E c \in Cycles :
    /\ Finished(c) /\ Len(result[c]) = 2
    /\ ~userOk[result[c][1]] /\ log[c][result[c][1]] = "skipped"
    /\ notified[result[c][1]] = FALSE
    /\ log[c][result[c][2]] = "marked" /\ notified[result[c][2]] = TRUE

\* C24: a scan leaves out every reminder whose due time is before its cycle's
\* now; a cycle sends (or skips) only reminders that were not overdue at its
\* now; and a flag is set only by a cycle for which the reminder was not
\* overdue.
C24_OverdueNeverSelected ==
  /\ [][\A c \in Cycles : ScanStep(c) =>
          \A r \in Reminders :
            dueAt[r] < cnow[c] => r \notin Range(result'[c])]_vars
  /\ [](\A c \in Cycles : \A r \in Reminders :
          log[c][r] # "none" => cnow[c] <= dueAt[r])
  /\ [][\A r \in Reminders : (notified[r] # TRUE /\ notified'[r] = TRUE) =>
          \E c \in Cycles :
            pc[c] = "save" /\ current(c) = r /\ cnow[c] <= dueAt[r]]_vars

\* the only attempt for a reminder failed inside the window; a cycle run after
\* its due time completed without it, and it is still not notified
C24_Witness ==
  \E r \in Reminders :
    /\ log[1][r] = "failed" /\ cnow[1] <= dueAt[r]
    /\ Finished(2) /\ cnow[2] > dueAt[r] /\ log[2][r] = "none"
    /\ exists[r] /\ notified[r] = FALSE /\ ~cleared[r]

\* C25: a step that clears a flag clears the flag of every reminder of the
\* store, leaves the flag of a reminder that is not in the store as it was,
\* and changes no due time, no owner, no membership of the store, no cycle
\* and nothing of the scheduler.
C25_ResetClearsFlagsOnly ==
  [][(\E r \in Reminders : notified[r] = TRUE /\ notified'[r] # TRUE) =>
       /\ \A r \in Reminders :
            notified'[r] = (IF exists[r] THEN FALSE ELSE notified[r])
       /\ UNCHANGED <<now, dueAt, userOk, exists, schedVars, cycleVars>>]_vars

\* both reminders were marked and a reset has cleared both
C25_Witness ==
  \A r \in Reminders :
    exists[r] /\ cleared[r] /\ notified[r] = FALSE /\ log[1][r] = "marked"

\* C26: a step of a cycle changes no due time, no owner and no membership of
\* the store, and changes the flag of a reminder only from not-true to true,
\* for a reminder of its own scan result that it has sent.
C26_CycleChangesOnlyItsFlags ==
  [][\A c \in Cycles :
       ( /\ pc[c] # "idle"
         /\ (pc'[c] # pc[c] \/ idx'[c] # idx[c] \/ log'[c] # log[c]) )
         => /\ UNCHANGED <<dueAt, userOk, exists>>
            /\ \A r \in Reminders : notified'[r] # notified[r] =>
                 /\ r \in Range(result[c]) /\ log[c][r] = "sent"
                 /\ notified'[r] = TRUE]_vars

\* a cycle marked the one reminder it selected, and the other reminder of the
\* store, outside its result, is as it was
C26_Witness ==
  \E c \in Cycles : \E r, q \in Reminders :
    /\ Finished(c) /\ result[c] = <<r>> /\ log[c][r] = "marked"
    /\ notified[r] = TRUE
    /\ q # r /\ exists[q] /\ notified[q] = FALSE /\ ~cleared[q]

\* this step is the answer to the findOne of a new verifyEmail request q
VerifyLookup(q) == rpc[q] = "idle" /\ held'[q].op = "verifyEmail"

\* C27: a user for whom verifyEmail has succeeded has no stored token and no
\* expiry; and a verifyEmail whose lookup is answered after a verifyEmail with
\* the same token has succeeded finds no user, answers 400 at once and changes
\* no user.
C27_TokenIsSingleUse ==
  /\ [](\A u \in verifiedOk :
          /\ user[u].emailVerificationToken = Missing
          /\ user[u].emailVerificationExpires = 0)
  /\ [][\A q \in Requests :
          ( /\ VerifyLookup(q)
            /\ \E p \in Requests :
                 /\ held[p].op = "verifyEmail" /\ resp[p].status = 200
                 /\ held[p].token = held'[q].token )
            => /\ held'[q].id = 0
               /\ rpc'[q] = "done" /\ resp'[q].status = 400
               /\ user' = user]_vars

\* a verifyEmail succeeded, and a later one with the same token, before any
\* expiry could have passed, was answered 400
C27_Witness ==
  \E p, q \in Requests :
    /\ p < q /\ clock = 0
    /\ held[p].op = "verifyEmail" /\ resp[p].status = 200
    /\ Present(held[p].id) /\ user[held[p].id].isEmailVerified
    /\ held[q].op = "verifyEmail" /\ held[q].token = held[p].token
    /\ held[q].id = 0 /\ resp[q].status = 400

\* C28: a token is stored with an expiry 24 hours after the save; the lookup
\* of a verifyEmail goes on to the save exactly when a user of the store has
\* the given token and an expiry strictly after the clock, and then for such
\* a user; otherwise it answers 400; the lookup changes no user; and the flag
\* of a user becomes true only in the save of a verifyEmail that was given
\* that user's token, and no other user changes in that step.
C28_VerifiesOnlyMatchingUnexpired ==
  /\ [][\A u \in UserIds :
          (user'[u].emailVerificationToken # Missing
             /\ user[u].emailVerificationToken = Missing)
            => user'[u].emailVerificationExpires = clock + TokenLifetimeHours]_vars
  /\ [][\A q \in Requests : VerifyLookup(q) =>
          /\ user' = user
          /\ IF \E u \in UserIds :
                  /\ Present(u) /\ held'[q].token # Missing
                  /\ user[u].emailVerificationToken = held'[q].token
                  /\ user[u].emailVerificationExpires > clock
               THEN /\ rpc'[q] = "verifyEmail.save"
                    /\ Present(held'[q].id)
                    /\ user[held'[q].id].emailVerificationToken = held'[q].token
                    /\ user[held'[q].id].emailVerificationExpires > clock
               ELSE /\ rpc'[q] = "done" /\ resp'[q].status = 400
                    /\ held'[q].id = 0]_vars
  /\ [][\A u \in UserIds :
          (~user[u].isEmailVerified /\ user'[u].isEmailVerified) =>
            /\ \E q \in Requests :
                 /\ rpc[q] = "verifyEmail.save" /\ held[q].id = u
                 /\ held[q].token = generateVerificationToken(u)
                 /\ resp'[q].status = 200
            /\ \A v \in UserIds \ {u} : user'[v] = user[v]]_vars

\* a verifyEmail with the stored token of a user was answered 400 without
\* reaching the save: the clock stands at the token's expiry, and the user is
\* still not verified
C28_Witness ==
  \E q \in Requests : \E u \in UserIds :
    /\ held[q].op = "verifyEmail" /\ held[q].id = 0 /\ resp[q].status = 400
    /\ Present(u) /\ ~user[u].isEmailVerified
    /\ held[q].token = user[u].emailVerificationToken
    /\ user[u].emailVerificationExpires = clock

\* C29: for each chat, at most one sendMessage request has sent the new-chat
\* notification.
C29_NewChatNotifiedOnce ==
  \A ch \in Chats :
    Cardinality({q \in Requests :
                   held[q].op = "sendMessage" /\ held[q].id = ch /\ mailed[q]}) <= 1

\* C30: an authenticated DELETE request for the path /clear-all is taken by
\* the handler clearAllActivities.
C30_ClearAllReachesItsHandler ==
  \A q \in Requests :
    ( /\ held[q].method = "DELETE" /\ held[q].path = <<"clear-all">>
      /\ resp[q].status = 200 )
      => held[q].op = "clearAllActivities"

TypeOK ==
  /\ now \in Times
  /\ isRunning \in BOOLEAN
  /\ timers \in 0..MaxStarts
  /\ nCycles \in 0..MaxCycles
  /\ \A c \in Cycles : pc[c] \in {"idle", "scan", "send", "save", "done", "aborted"}

====
